---- MODULE Spec2Model ----
(***************************************************************************)
(* runst: the notification lifecycle.  The Manager (a lock-guarded vector  *)
(* of notifications), the mpsc Action channel, the dispatch loop of run(), *)
(* the D-Bus interface (Notifications / NotificationControl), the expiry   *)
(* timer threads and the X11 event thread.                                 *)
(*                                                                         *)
(* Every Manager method takes the RwLock for its whole body, so it is one  *)
(* atomic step.  A thread's steps are cut at its Manager calls and at its  *)
(* channel sends; display calls (map/unmap) touch no shared memory and are *)
(* folded into the neighbouring step of the same thread.                   *)
(***************************************************************************)
EXTENDS Integers, Sequences, FiniteSets, TLC

\* ---------------------------------------------------------------- bounds
MaxOps == 3
MaxNotify == 2
MaxControl == 1
MaxClicks == 1
MaxLen == 3

\* Option::None of an Option<u32> / Option<Duration>.
None == -1

\* Err(fdo::Error::Failed(..)) as the reply of a D-Bus method.
Err == -2

\* ------------------------------------------------------------- variables
VARIABLES
    config,      \* Config (read-only after Config::parse)
    dbus,        \* state of the D-Bus server thread
    reply,       \* reply of the latest Notify call that returned
    next_id,     \* Notifications.next_id
    calls,       \* Notify calls between id allocation and sender.send
    chan,        \* the mpsc channel sender -> receiver
    store,       \* Manager.inner : Vec<Notification>
    timers,      \* spawned expiry threads that have not yet woken up
    visible,     \* the X11 window is mapped
    xevents,     \* X11 events waiting for handle_events
    drawn,       \* the notification window.draw rendered last
    pc,          \* position of the main thread in run()
    cur,         \* the action the dispatch loop is processing
    inputPc,     \* position of the X11 event thread in handle_events
    inputN,      \* `notification` local of the X11 event thread
    nsent,       \* history: number of actions ever enqueued
    nrecv,       \* history: number of actions ever dequeued
    lastEffect,  \* history: enqueue number of the action that issued the latest effect
    ncalls,      \* history: number of Notify calls
    nctl,        \* history: number of control calls
    nclicks,     \* history: number of button presses
    call         \* record of the latest Manager call (pure-function specification)

vars == <<config, drawn, dbus, reply, next_id, calls, chan, store, timers, visible, xevents, pc, cur,
          inputPc, inputN, nsent, nrecv, lastEffect, ncalls, nctl, nclicks, call>>

\* ------------------------------------------------------------------ data
\* impl From<u64> for Urgency
UrgencyFrom(value) ==
    CASE value = 0 -> "Low"
      [] value = 1 -> "Normal"
      [] value = 2 -> "Critical"
      [] OTHER -> "Normal"

\* Notification; is_read is the only field ever modified.
Notification(id, expire_timeout, urgency) ==
    [id |-> id, expire_timeout |-> expire_timeout, urgency |-> urgency, is_read |-> FALSE]

NoNotification == [id |-> None, expire_timeout |-> None, urgency |-> "Normal", is_read |-> TRUE]

\* enum Action
ActShow(n) == [type |-> "Show", n |-> n, id |-> None]
ActShowLast == [type |-> "ShowLast", n |-> NoNotification, id |-> None]
ActClose(id) == [type |-> "Close", n |-> NoNotification, id |-> id]
ActCloseAll == [type |-> "CloseAll", n |-> NoNotification, id |-> None]

NoAction == [type |-> "None", n |-> NoNotification, id |-> None, seq |-> 0]

\* An Option<bool>: the set of its values.
NoBool == {}
SomeBool(b) == {b}

\* Option::unwrap_or
unwrap_or(o, default) == IF o = {} THEN default ELSE CHOOSE b \in o : TRUE

\* Config: the fields run() reads; auto_clear is an Option<bool>.
UrgencyConfig(timeout, auto_clear) == [timeout |-> timeout, auto_clear |-> auto_clear]

Configs ==
    { [startup_notification |-> s,
       urgency_low |-> UrgencyConfig(2, SomeBool(FALSE)),
       urgency_normal |-> UrgencyConfig(10, SomeBool(FALSE)),
       urgency_critical |-> UrgencyConfig(0, NoBool)] : s \in BOOLEAN }

get_urgency_config(c, urgency) ==
    CASE urgency = "Low" -> c.urgency_low
      [] urgency = "Normal" -> c.urgency_normal
      [] urgency = "Critical" -> c.urgency_critical

\* An Option<Regex>; a Regex is modelled by the set of strings it matches.
NoRegex == [some |-> FALSE, matches |-> {}]
SomeRegex(S) == [some |-> TRUE, matches |-> S]

is_match(re, text) == text \in re.matches

matches_filter_any(n, filter) ==
    \/ filter.app_name = NoRegex /\ filter.summary = NoRegex /\ filter.body = NoRegex
    \/ filter.app_name # NoRegex /\ is_match(filter.app_name, n.app_name)
    \/ filter.summary # NoRegex /\ is_match(filter.summary, n.summary)
    \/ filter.body # NoRegex /\ is_match(filter.body, n.body)

\* check_filter!(app_name); check_filter!(summary); check_filter!(body); true
matches_filter(n, filter) ==
    IF filter.app_name # NoRegex /\ ~is_match(filter.app_name, n.app_name) THEN FALSE
    ELSE IF filter.summary # NoRegex /\ ~is_match(filter.summary, n.summary) THEN FALSE
    ELSE IF filter.body # NoRegex /\ ~is_match(filter.body, n.body) THEN FALSE
    ELSE TRUE

\* ------------------------------------------------------------- Manager
SetMax(S) == CHOOSE x \in S : \A y \in S : y <= x
SetMin(S) == CHOOSE x \in S : \A y \in S : x <= y

Unread(s) == {i \in DOMAIN s : ~s[i].is_read}
WithId(s, id) == {i \in DOMAIN s : s[i].id = id}

count(s) == Len(s)

add_front(s, n) == <<n>> \o s

add(s, n) == Append(s, n)

get_unread_count(s) == Cardinality(Unread(s))

\* notifications[notifications.len() - 1] of the unread entries; the
\* caller checks Unread(s) # {} (the index is out of bounds otherwise).
get_last_unread(s) == s[SetMax(Unread(s))]

mark_last_as_read_first(s) ==
    IF Unread(s) = {} THEN s
    ELSE [s EXCEPT ![SetMin(Unread(s))].is_read = TRUE]

mark_last_as_read(s) ==
    IF Unread(s) = {} THEN s
    ELSE [s EXCEPT ![SetMax(Unread(s))].is_read = TRUE]

mark_next_as_unread_first(s) ==
    IF Unread(s) = {}
    THEN [store |-> [s EXCEPT ![1].is_read = FALSE], ret |-> TRUE]
    ELSE LET index == SetMin(Unread(s))
             s1 == [s EXCEPT ![index].is_read = TRUE]
         IN  IF index > 1
             THEN [store |-> [s1 EXCEPT ![index - 1].is_read = FALSE], ret |-> TRUE]
             ELSE [store |-> s1, ret |-> FALSE]

mark_next_as_unread_keep(s) ==
    IF Unread(s) = {}
    THEN [store |-> [s EXCEPT ![Len(s)].is_read = FALSE], ret |-> TRUE]
    ELSE LET index == SetMin(Unread(s))
         IN  IF index > 1
             THEN [store |-> [s EXCEPT ![index - 1].is_read = FALSE], ret |-> TRUE]
             ELSE [store |-> s, ret |-> FALSE]

mark_next_as_unread_wrap(s) ==
    IF Unread(s) = {}
    THEN [store |-> [s EXCEPT ![Len(s)].is_read = FALSE], ret |-> TRUE]
    ELSE LET index == SetMin(Unread(s))
             s1 == [s EXCEPT ![index].is_read = TRUE]
         IN  IF index > 1
             THEN [store |-> [s1 EXCEPT ![index - 1].is_read = FALSE], ret |-> TRUE]
             ELSE [store |-> [s1 EXCEPT ![Len(s)].is_read = FALSE], ret |-> TRUE]

\* position(|v| !v.is_read) is the first unread index; s is non-empty.
mark_next_as_unread(s) ==
    IF Unread(s) = {}
    THEN [store |-> [s EXCEPT ![Len(s)].is_read = FALSE], ret |-> TRUE]
    ELSE LET index == SetMin(Unread(s))
             s1 == [s EXCEPT ![index].is_read = TRUE]
         IN  IF index > 1
             THEN [store |-> [s1 EXCEPT ![index - 1].is_read = FALSE], ret |-> TRUE]
             ELSE [store |-> s1, ret |-> FALSE]

mark_as_read_unread(s, id) ==
    LET m == {i \in WithId(s, id) : ~s[i].is_read}
    IN  IF m = {} THEN s
        ELSE [s EXCEPT ![SetMin(m)].is_read = TRUE]

mark_as_read_or_last(s, id) ==
    IF WithId(s, id) = {} THEN mark_last_as_read(s)
    ELSE [s EXCEPT ![SetMin(WithId(s, id))].is_read = TRUE]

mark_as_read_toggle(s, id) ==
    IF WithId(s, id) = {} THEN s
    ELSE [s EXCEPT ![SetMin(WithId(s, id))].is_read = ~s[SetMin(WithId(s, id))].is_read]

\* find(|n| n.id == id) is the first entry carrying the id.
mark_as_read(s, id) ==
    IF WithId(s, id) = {} THEN s
    ELSE [s EXCEPT ![SetMin(WithId(s, id))].is_read = TRUE]

mark_all_as_read_last(s) ==
    IF s = <<>> THEN s
    ELSE [s EXCEPT ![Len(s)].is_read = TRUE]

mark_all_as_read_clear(s) == <<>>

mark_all_as_read(s) == [i \in DOMAIN s |-> [s[i] EXCEPT !.is_read = TRUE]]

is_unread_any(s, id) ==
    IF WithId(s, id) = {} THEN Unread(s) # {}
    ELSE ~s[SetMin(WithId(s, id))].is_read

is_unread(s, id) ==
    IF WithId(s, id) = {} THEN FALSE
    ELSE ~s[SetMin(WithId(s, id))].is_read

\* ------------------------------------------------------------- channel
\* Sender::send: the action is appended; seq is its enqueue number.
Send(a) ==
    /\ chan' = Append(chan, [type |-> a.type, n |-> a.n, id |-> a.id, seq |-> nsent + 1])
    /\ nsent' = nsent + 1

\* run() has returned: the Receiver is dropped.
Disconnected == pc = "exited"

\* Sender::send returns Err(SendError) once the Receiver is dropped.
TrySend(a) == IF Disconnected THEN UNCHANGED <<chan, nsent>> ELSE Send(a)

\* Receiver::recv on a non-empty channel: the oldest message.
recv_newest(c) == [msg |-> c[Len(c)], rest |-> SubSeq(c, 1, Len(c) - 1)]

recv(c) == [msg |-> Head(c), rest |-> Tail(c)]

\* ------------------------------------------------------ inputs (bounded)
ReplacesIds == {0, 1}
ExpireArgs == {-1, 5}
UrgencyHints == {2}
CloseIds == {1}

NoCall == [op |-> "none", pre |-> <<>>, id |-> None, ret |-> FALSE]

\* Events from outside so far: the startup notification, the calls, the
\* clicks and the failure of the display.
Ops == (IF config.startup_notification THEN 1 ELSE 0) + ncalls + nctl + nclicks
           + (IF pc = "exited" THEN 1 ELSE 0)

\* ------------------------------------------------------------------ Init
Init ==
    /\ config \in Configs
    /\ dbus = "starting"
    /\ reply = None
    /\ next_id = 0
    /\ calls = {}
    /\ chan = <<>>
    /\ store = <<>>
    /\ timers = {}
    /\ visible = FALSE
    /\ xevents = <<>>
    /\ drawn = NoNotification
    /\ pc = "startup"
    /\ cur = NoAction
    /\ inputPc = "wait"
    /\ inputN = NoNotification
    /\ nsent = 0
    /\ nrecv = 0
    /\ lastEffect = 0
    /\ ncalls = 0
    /\ nctl = 0
    /\ nclicks = 0
    /\ call = NoCall

\* ------------------------------------ D-Bus: the arguments of Notify
notify_expire_timeout_gt1(expire_timeout) ==
    IF expire_timeout > 1 THEN expire_timeout ELSE None

\* expire_timeout: i32, milliseconds.  `as u64` is applied to positive
\* values only, which it leaves as they are; Duration::from_millis is exact.
notify_expire_timeout(expire_timeout) ==
    IF expire_timeout > 0 THEN expire_timeout ELSE None

notify_urgency_shifted(hint) ==
    IF hint = None THEN "Normal" ELSE UrgencyFrom(hint - 1)

\* hints.get("urgency") converted to u8 (None: no such hint, or one that is
\* not a byte); `v as u64` widens the byte.
notify_urgency(hint) ==
    IF hint = None THEN "Normal" ELSE UrgencyFrom(hint)

\* ------------------------------------------- D-Bus: the server thread
\* The name is acquired, the connection built and both interfaces served.
dbus_serve ==
    /\ dbus = "starting"
    /\ dbus' = "running"
    /\ UNCHANGED <<config, drawn, reply, next_id, calls, chan, store, timers, visible, xevents,
                   pc, cur, inputPc, inputN, nsent, nrecv, lastEffect, ncalls, nctl,
                   nclicks, call>>

\* Builder::session, Builder::name, build or object_server().at fails: the
\* error is printed and the thread returns.
dbus_fail ==
    /\ dbus = "starting"
    /\ dbus' = "failed"
    /\ UNCHANGED <<config, drawn, reply, next_id, calls, chan, store, timers, visible, xevents,
                   pc, cur, inputPc, inputN, nsent, nrecv, lastEffect, ncalls, nctl,
                   nclicks, call>>

\* --------------------------------------------- D-Bus: Notifications
notify_id_stale(replaces_id, expire_timeout, hint) ==
    /\ dbus = "running"
    /\ ncalls < MaxNotify
    /\ Ops < MaxOps
    /\ LET id == IF replaces_id > 0 THEN replaces_id ELSE next_id
           urgency == IF hint = None THEN "Normal" ELSE UrgencyFrom(hint)
           expire == IF expire_timeout > 0 THEN expire_timeout ELSE None
       IN  /\ next_id' = IF replaces_id > 0 THEN next_id ELSE next_id + 1
           /\ calls' = calls \cup {[call |-> ncalls + 1, replaces_id |-> replaces_id,
                                    n |-> Notification(id, expire, urgency)]}
    /\ ncalls' = ncalls + 1
    /\ UNCHANGED <<config, drawn, dbus, reply, chan, store, timers, visible, xevents, pc, cur, inputPc,
                   inputN, nsent, nrecv, lastEffect, nctl, nclicks, call>>

notify_id_fresh(replaces_id, expire_timeout, hint) ==
    /\ dbus = "running"
    /\ ncalls < MaxNotify
    /\ Ops < MaxOps
    /\ LET urgency == IF hint = None THEN "Normal" ELSE UrgencyFrom(hint)
           expire == IF expire_timeout > 0 THEN expire_timeout ELSE None
       IN  /\ next_id' = next_id + 1
           /\ calls' = calls \cup {[call |-> ncalls + 1, replaces_id |-> replaces_id,
                                    n |-> Notification(next_id + 1, expire, urgency)]}
    /\ ncalls' = ncalls + 1
    /\ UNCHANGED <<config, drawn, dbus, reply, chan, store, timers, visible, xevents, pc, cur, inputPc,
                   inputN, nsent, nrecv, lastEffect, nctl, nclicks, call>>

\* notify, first half: the id is chosen (next_id is locked for the
\* increment only) and the Notification is built.
notify_id(replaces_id, expire_timeout, hint) ==
    /\ dbus = "running"
    /\ ncalls < MaxNotify
    /\ Ops < MaxOps
    /\ LET id == IF replaces_id > 0 THEN replaces_id ELSE next_id + 1
           urgency == notify_urgency(hint)
           expire == notify_expire_timeout(expire_timeout)
       IN  /\ next_id' = IF replaces_id > 0 THEN next_id ELSE next_id + 1
           /\ calls' = calls \cup {[call |-> ncalls + 1, replaces_id |-> replaces_id,
                                    n |-> Notification(id, expire, urgency)]}
    /\ ncalls' = ncalls + 1
    /\ UNCHANGED <<config, drawn, dbus, reply, chan, store, timers, visible, xevents, pc, cur, inputPc,
                   inputN, nsent, nrecv, lastEffect, nctl, nclicks, call>>

notify_send_counter(c) ==
    /\ c \in calls
    /\ TrySend(ActShow(c.n))
    /\ reply' = IF Disconnected THEN Err ELSE next_id
    /\ calls' = calls \ {c}
    /\ UNCHANGED <<config, drawn, dbus, next_id, store, timers, visible, xevents, pc, cur, inputPc,
                   inputN, nrecv, lastEffect, ncalls, nctl, nclicks, call>>

\* notify, second half: sender.send(Action::Show(notification)) and the
\* reply, Ok(id) or the error of the send.
notify_send(c) ==
    /\ c \in calls
    /\ TrySend(ActShow(c.n))
    /\ reply' = IF Disconnected THEN Err ELSE c.n.id
    /\ calls' = calls \ {c}
    /\ UNCHANGED <<config, drawn, dbus, next_id, store, timers, visible, xevents, pc, cur, inputPc,
                   inputN, nrecv, lastEffect, ncalls, nctl, nclicks, call>>

Control_twice(a) ==
    /\ dbus = "running"
    /\ nctl < MaxControl
    /\ Ops < MaxOps
    /\ nctl' = nctl + 1
    /\ chan' = chan \o << [type |-> a.type, n |-> a.n, id |-> a.id, seq |-> nsent + 1],
                          [type |-> a.type, n |-> a.n, id |-> a.id, seq |-> nsent + 2] >>
    /\ nsent' = nsent + 2
    /\ UNCHANGED <<config, drawn, dbus, reply, next_id, calls, store, timers, visible, xevents, pc, cur,
                   inputPc, inputN, nrecv, lastEffect, ncalls, nclicks, call>>

\* A control call: one sender.send(action), then Ok(()).
Control(a) ==
    /\ dbus = "running"
    /\ nctl < MaxControl
    /\ Ops < MaxOps
    /\ nctl' = nctl + 1
    /\ TrySend(a)
    /\ UNCHANGED <<config, drawn, dbus, reply, next_id, calls, store, timers, visible, xevents, pc, cur,
                   inputPc, inputN, nrecv, lastEffect, ncalls, nclicks, call>>

close_notification(id) == Control(ActClose(id))

\* ---------------------------------------- D-Bus: NotificationControl
history == Control(ActShowLast)

close == Control(ActClose(None))

close_all == Control(ActCloseAll)

\* ------------------------------------------------------- run(): main thread
\* show_window right after hide_window: the server maps the window and
\* sends an Expose event, which is queued for handle_events as long as that
\* thread is alive to read it.
show_window(q) == IF inputPc = "panicked" THEN q ELSE Append(q, "Expose")

\* The effective timeout of a Show in milliseconds; read_secs is the
\* estimated read time of the rendered message (0 when rendering fails).
timeout_policy(n, c, read_secs) ==
    LET urgency_config == get_urgency_config(c, n.urgency)
    IN  IF unwrap_or(urgency_config.auto_clear, FALSE) THEN read_secs * 1000
        ELSE IF urgency_config.timeout # 0 \/ n.expire_timeout = None
             THEN urgency_config.timeout * 1000
             ELSE n.expire_timeout

timeout(n, c, read_secs) ==
    IF n.expire_timeout # None THEN n.expire_timeout
    ELSE LET urgency_config == get_urgency_config(c, n.urgency)
         IN  IF unwrap_or(urgency_config.auto_clear, FALSE) THEN read_secs * 1000
             ELSE urgency_config.timeout * 1000

ReadSecs == {0, 1}

\* The startup notification is sent after the other threads were spawned.
startup ==
    /\ pc = "startup"
    /\ pc' = "recv"
    /\ IF config.startup_notification
       THEN Send(ActShow(Notification(0, 3000, "Normal")))
       ELSE UNCHANGED <<chan, nsent>>
    /\ UNCHANGED <<config, drawn, dbus, reply, next_id, calls, store, timers, visible, xevents, cur, inputPc,
                   inputN, nrecv, lastEffect, ncalls, nctl, nclicks, call>>

recv_show_spawn ==
    /\ pc = "recv"
    /\ chan # <<>>
    /\ LET r == recv(chan)
       IN  /\ r.msg.type = "Show"
           /\ chan' = r.rest
           /\ cur' = r.msg
           /\ timers' = timers \cup {[id |-> r.msg.n.id, idx |-> Len(store) + 1]}
    /\ nrecv' = nrecv + 1
    /\ pc' = "show_add"
    /\ UNCHANGED <<config, drawn, dbus, reply, next_id, calls, store, visible, xevents, inputPc, inputN,
                   nsent, lastEffect, ncalls, nctl, nclicks, call>>

\* Action::Show, up to the spawn of the expiry thread.  idx is the position
\* the notification will take in the store (only this thread adds).
recv_show ==
    /\ pc = "recv"
    /\ chan # <<>>
    /\ LET r == recv(chan)
       IN  /\ r.msg.type = "Show"
           /\ chan' = r.rest
           /\ cur' = r.msg
           /\ \E read_secs \in ReadSecs :
                 /\ unwrap_or(get_urgency_config(config, r.msg.n.urgency).auto_clear, FALSE)
                        \/ read_secs = 0
                 /\ timers' = IF timeout(r.msg.n, config, read_secs) # 0
                              THEN timers \cup {[id |-> r.msg.n.id, idx |-> Len(store) + 1]}
                              ELSE timers
    /\ nrecv' = nrecv + 1
    /\ pc' = "show_add"
    /\ UNCHANGED <<config, drawn, dbus, reply, next_id, calls, store, visible, xevents, inputPc, inputN,
                   nsent, lastEffect, ncalls, nctl, nclicks, call>>

show_add_toggle ==
    /\ pc = "show_add"
    /\ store' = add(store, cur.n)
    /\ visible' = ~visible
    /\ xevents' = IF visible THEN xevents ELSE show_window(xevents)
    /\ lastEffect' = cur.seq
    /\ cur' = NoAction
    /\ pc' = "recv"
    /\ UNCHANGED <<config, drawn, dbus, reply, next_id, calls, chan, timers, inputPc,
                   inputN, nsent, nrecv, ncalls, nctl, nclicks, call>>

\* Action::Show, the rest: add, hide_window, show_window (the map of the
\* unmapped window makes the server send an Expose event).
show_add ==
    /\ pc = "show_add"
    /\ store' = add(store, cur.n)
    /\ visible' = TRUE
    /\ xevents' = show_window(xevents)
    /\ lastEffect' = cur.seq
    /\ cur' = NoAction
    /\ pc' = "recv"
    /\ UNCHANGED <<config, drawn, dbus, reply, next_id, calls, chan, timers, inputPc, inputN, nsent, nrecv,
                   ncalls, nctl, nclicks, call>>

recv_show_last_break ==
    /\ pc = "recv"
    /\ chan # <<>>
    /\ LET r == recv(chan)
       IN  /\ r.msg.type = "ShowLast"
           /\ chan' = r.rest
           /\ IF count(store) = 0
              THEN /\ pc' = "exited"
                   /\ cur' = NoAction
              ELSE /\ pc' = "show_last"
                   /\ cur' = r.msg
    /\ nrecv' = nrecv + 1
    /\ UNCHANGED <<config, drawn, dbus, reply, next_id, calls, store, timers, visible, xevents, inputPc,
                   inputN, nsent, lastEffect, ncalls, nctl, nclicks, call>>

recv_show_last_unchecked ==
    /\ pc = "recv"
    /\ chan # <<>>
    /\ LET r == recv(chan)
       IN  /\ r.msg.type = "ShowLast"
           /\ chan' = r.rest
           /\ pc' = "show_last"
           /\ cur' = r.msg
    /\ nrecv' = nrecv + 1
    /\ UNCHANGED <<config, drawn, dbus, reply, next_id, calls, store, timers, visible, xevents, inputPc,
                   inputN, nsent, lastEffect, ncalls, nctl, nclicks, call>>

\* Action::ShowLast, the count() check.
recv_show_last ==
    /\ pc = "recv"
    /\ chan # <<>>
    /\ LET r == recv(chan)
       IN  /\ r.msg.type = "ShowLast"
           /\ chan' = r.rest
           /\ IF count(store) = 0
              THEN /\ pc' = "recv"
                   /\ cur' = NoAction
              ELSE /\ pc' = "show_last"
                   /\ cur' = r.msg
    /\ nrecv' = nrecv + 1
    /\ UNCHANGED <<config, drawn, dbus, reply, next_id, calls, store, timers, visible, xevents, inputPc,
                   inputN, nsent, lastEffect, ncalls, nctl, nclicks, call>>

show_last_shown ==
    /\ pc = "show_last"
    /\ count(store) # 0
    /\ store' = mark_next_as_unread(store).store
    /\ visible' = TRUE
    /\ xevents' = show_window(xevents)
    /\ lastEffect' = cur.seq
    /\ pc' = "recv"
    /\ cur' = NoAction
    /\ UNCHANGED <<config, drawn, dbus, reply, next_id, calls, chan, timers, inputPc,
                   inputN, nsent, nrecv, ncalls, nctl, nclicks, call>>

\* Action::ShowLast, mark_next_as_unread and the display calls of its branch.
show_last ==
    /\ pc = "show_last"
    /\ IF count(store) = 0
       THEN /\ pc' = "panicked"
            /\ UNCHANGED <<store, visible, xevents, lastEffect>>
       ELSE LET r == mark_next_as_unread(store)
            IN  /\ store' = r.store
                /\ visible' = r.ret
                /\ xevents' = IF r.ret THEN show_window(xevents) ELSE xevents
                /\ lastEffect' = cur.seq
                /\ pc' = "recv"
    /\ cur' = NoAction
    /\ UNCHANGED <<config, drawn, dbus, reply, next_id, calls, chan, timers, inputPc, inputN, nsent, nrecv,
                   ncalls, nctl, nclicks, call>>

\* Action::Close, mark_as_read / mark_last_as_read and hide_window.
recv_close ==
    /\ pc = "recv"
    /\ chan # <<>>
    /\ LET r == recv(chan)
       IN  /\ r.msg.type = "Close"
           /\ chan' = r.rest
           /\ cur' = r.msg
           /\ store' = IF r.msg.id # None THEN mark_as_read(store, r.msg.id)
                       ELSE mark_last_as_read(store)
           /\ lastEffect' = r.msg.seq
    /\ visible' = FALSE
    /\ nrecv' = nrecv + 1
    /\ pc' = "close_show"
    /\ UNCHANGED <<config, drawn, dbus, reply, next_id, calls, timers, xevents, inputPc, inputN, nsent,
                   ncalls, nctl, nclicks, call>>

\* Action::Close, the get_unread_count() check and show_window.
close_show ==
    /\ pc = "close_show"
    /\ IF get_unread_count(store) >= 1
       THEN /\ visible' = TRUE
            /\ xevents' = show_window(xevents)
       ELSE UNCHANGED <<visible, xevents>>
    /\ lastEffect' = cur.seq
    /\ cur' = NoAction
    /\ pc' = "recv"
    /\ UNCHANGED <<config, drawn, dbus, reply, next_id, calls, chan, store, timers, inputPc, inputN, nsent,
                   nrecv, ncalls, nctl, nclicks, call>>

\* Action::CloseAll.
recv_close_all ==
    /\ pc = "recv"
    /\ chan # <<>>
    /\ LET r == recv(chan)
       IN  /\ r.msg.type = "CloseAll"
           /\ chan' = r.rest
           /\ lastEffect' = r.msg.seq
    /\ store' = mark_all_as_read(store)
    /\ visible' = FALSE
    /\ nrecv' = nrecv + 1
    /\ UNCHANGED <<config, drawn, dbus, reply, next_id, calls, timers, xevents, pc, cur, inputPc, inputN,
                   nsent, ncalls, nctl, nclicks, call>>

\* hide_window / show_window returns Err (the X connection is broken): the
\* `?` makes run() return, which drops the Receiver.  Each step below is the
\* step of the same name up to its failing display call.
show_add_err ==
    /\ Ops < MaxOps
    /\ pc = "show_add"
    /\ store' = add(store, cur.n)
    /\ lastEffect' = cur.seq
    /\ cur' = NoAction
    /\ pc' = "exited"
    /\ UNCHANGED <<config, drawn, dbus, reply, next_id, calls, chan, timers, visible, xevents,
                   inputPc, inputN, nsent, nrecv, ncalls, nctl, nclicks, call>>

show_last_err ==
    /\ Ops < MaxOps
    /\ pc = "show_last"
    /\ count(store) # 0
    /\ store' = mark_next_as_unread(store).store
    /\ lastEffect' = cur.seq
    /\ cur' = NoAction
    /\ pc' = "exited"
    /\ UNCHANGED <<config, drawn, dbus, reply, next_id, calls, chan, timers, visible, xevents,
                   inputPc, inputN, nsent, nrecv, ncalls, nctl, nclicks, call>>

recv_close_err ==
    /\ Ops < MaxOps
    /\ pc = "recv"
    /\ chan # <<>>
    /\ LET r == recv(chan)
       IN  /\ r.msg.type = "Close"
           /\ chan' = r.rest
           /\ store' = IF r.msg.id # None THEN mark_as_read(store, r.msg.id)
                       ELSE mark_last_as_read(store)
           /\ lastEffect' = r.msg.seq
    /\ nrecv' = nrecv + 1
    /\ pc' = "exited"
    /\ UNCHANGED <<config, drawn, dbus, reply, next_id, calls, timers, visible, xevents, cur,
                   inputPc, inputN, nsent, ncalls, nctl, nclicks, call>>

close_show_err ==
    /\ Ops < MaxOps
    /\ pc = "close_show"
    /\ get_unread_count(store) >= 1
    /\ lastEffect' = cur.seq
    /\ cur' = NoAction
    /\ pc' = "exited"
    /\ UNCHANGED <<config, drawn, dbus, reply, next_id, calls, chan, store, timers, visible,
                   xevents, inputPc, inputN, nsent, nrecv, ncalls, nctl, nclicks, call>>

recv_close_all_err ==
    /\ Ops < MaxOps
    /\ pc = "recv"
    /\ chan # <<>>
    /\ LET r == recv(chan)
       IN  /\ r.msg.type = "CloseAll"
           /\ chan' = r.rest
           /\ lastEffect' = r.msg.seq
    /\ store' = mark_all_as_read(store)
    /\ nrecv' = nrecv + 1
    /\ pc' = "exited"
    /\ UNCHANGED <<config, drawn, dbus, reply, next_id, calls, timers, visible, xevents, cur,
                   inputPc, inputN, nsent, ncalls, nctl, nclicks, call>>

\* ------------------------------------------------------- expiry thread
timer_fire_hide(t) ==
    /\ t \in timers
    /\ timers' = timers \ {t}
    /\ visible' = (visible /\ ~is_unread(store, t.id))
    /\ IF is_unread(store, t.id)
       THEN TrySend(ActClose(t.id))
       ELSE UNCHANGED <<chan, nsent>>
    /\ UNCHANGED <<config, drawn, dbus, reply, next_id, calls, store, xevents, pc, cur,
                   inputPc, inputN, nrecv, lastEffect, ncalls, nctl, nclicks, call>>

\* The thread wakes up: is_unread, then the send (whose failure panics
\* this thread only).
timer_fire(t) ==
    /\ t \in timers
    /\ timers' = timers \ {t}
    /\ IF is_unread(store, t.id)
       THEN TrySend(ActClose(t.id))
       ELSE UNCHANGED <<chan, nsent>>
    /\ UNCHANGED <<config, drawn, dbus, reply, next_id, calls, store, visible, xevents, pc, cur, inputPc,
                   inputN, nrecv, lastEffect, ncalls, nctl, nclicks, call>>

\* ------------------------------------------------- X11: handle_events
\* The user clicks on the mapped window.
button_press ==
    /\ visible
    /\ inputPc # "panicked"
    /\ nclicks < MaxClicks
    /\ Ops < MaxOps
    /\ nclicks' = nclicks + 1
    /\ xevents' = Append(xevents, "ButtonPress")
    /\ UNCHANGED <<config, drawn, dbus, reply, next_id, calls, chan, store, timers, visible, pc, cur, inputPc,
                   inputN, nsent, nrecv, lastEffect, ncalls, nctl, call>>

\* Event::Expose: get_last_unread() (which indexes out of bounds when no
\* notification is unread), get_unread_count() and window.draw.
expose ==
    /\ inputPc = "wait"
    /\ xevents # <<>>
    /\ Head(xevents) = "Expose"
    /\ IF Unread(store) = {}
       THEN /\ inputPc' = "panicked"
            /\ xevents' = <<>>
            /\ drawn' = drawn
       ELSE /\ inputPc' = "wait"
            /\ xevents' = Tail(xevents)
            /\ drawn' = get_last_unread(store)
    /\ UNCHANGED <<config, dbus, reply, next_id, calls, chan, store, timers, visible, pc, cur, inputN,
                   nsent, nrecv, lastEffect, ncalls, nctl, nclicks, call>>

\* Event::ButtonPress: get_last_unread().
press_get_last_unread ==
    /\ inputPc = "wait"
    /\ xevents # <<>>
    /\ Head(xevents) = "ButtonPress"
    /\ IF Unread(store) = {}
       THEN /\ inputPc' = "panicked"
            /\ xevents' = <<>>
            /\ UNCHANGED inputN
       ELSE /\ inputPc' = "press_mark"
            /\ xevents' = Tail(xevents)
            /\ inputN' = get_last_unread(store)
    /\ UNCHANGED <<config, drawn, dbus, reply, next_id, calls, chan, store, timers, visible, pc, cur, nsent,
                   nrecv, lastEffect, ncalls, nctl, nclicks, call>>

\* Event::ButtonPress: manager.mark_last_as_read().
press_mark ==
    /\ inputPc = "press_mark"
    /\ store' = mark_last_as_read(store)
    /\ inputPc' = "press_send"
    /\ UNCHANGED <<config, drawn, dbus, reply, next_id, calls, chan, timers, visible, xevents, pc, cur, inputN,
                   nsent, nrecv, lastEffect, ncalls, nctl, nclicks, call>>

\* Event::ButtonPress: on_press sends Close(Some(notification.id)); the
\* expect on a failed send panics the thread.
press_send ==
    /\ inputPc = "press_send"
    /\ TrySend(ActClose(inputN.id))
    /\ inputPc' = IF Disconnected THEN "send_panicked" ELSE "wait"
    /\ inputN' = NoNotification
    /\ UNCHANGED <<config, drawn, dbus, reply, next_id, calls, store, timers, visible, xevents, pc, cur,
                   nrecv, lastEffect, ncalls, nctl, nclicks, call>>

\* ------------------------------------------------------------------ Next
Next ==
    \/ dbus_serve
    \/ dbus_fail
    \/ \E r \in ReplacesIds, e \in ExpireArgs, h \in UrgencyHints : notify_id(r, e, h)
    \/ \E c \in calls : notify_send(c)
    \/ \E id \in CloseIds : close_notification(id)
    \/ history
    \/ close
    \/ close_all
    \/ startup
    \/ recv_show
    \/ show_add
    \/ recv_show_last
    \/ show_last
    \/ recv_close
    \/ close_show
    \/ recv_close_all
    \/ show_add_err
    \/ show_last_err
    \/ recv_close_err
    \/ close_show_err
    \/ recv_close_all_err
    \/ \E t \in timers : timer_fire(t)
    \/ button_press
    \/ expose
    \/ press_get_last_unread
    \/ press_mark
    \/ press_send

Spec == Init /\ [][Next]_vars

\* The scheduler runs every thread that can take a step: the main thread,
\* the expiry threads, the D-Bus method tasks and the X11 event thread.
\* Clients and the user are under no obligation.
Dispatch ==
    \/ startup
    \/ recv_show
    \/ show_add
    \/ recv_show_last
    \/ show_last
    \/ recv_close
    \/ close_show
    \/ recv_close_all
    \/ show_add_err
    \/ show_last_err
    \/ recv_close_err
    \/ close_show_err
    \/ recv_close_all_err

HandleEvents == expose \/ press_get_last_unread \/ press_mark \/ press_send

FairSpec ==
    /\ Init
    /\ [][Next]_vars
    /\ WF_vars(dbus_serve \/ dbus_fail)
    /\ WF_vars(Dispatch)
    /\ WF_vars(\E t \in timers : timer_fire(t))
    /\ WF_vars(\E c \in calls : notify_send(c))
    /\ WF_vars(HandleEvents)

\* ------------------------------------------- Manager as pure functions
\* Each Manager method applied to every store of at most MaxLen entries;
\* call records the method, the store before it and what it returned.
StoreIds == {1, 2}

Entries == {[Notification(id, None, "Normal") EXCEPT !.is_read = b] :
               id \in StoreIds, b \in BOOLEAN}

Stores == UNION {[1..k -> Entries] : k \in 0..MaxLen}

FnInit ==
    /\ config \in Configs
    /\ dbus = "running"
    /\ reply = None
    /\ next_id = 0
    /\ calls = {}
    /\ chan = <<>>
    /\ store \in Stores
    /\ timers = {}
    /\ visible = FALSE
    /\ xevents = <<>>
    /\ drawn = NoNotification
    /\ pc = "recv"
    /\ cur = NoAction
    /\ inputPc = "wait"
    /\ inputN = NoNotification
    /\ nsent = 0
    /\ nrecv = 0
    /\ lastEffect = 0
    /\ ncalls = 0
    /\ nctl = 0
    /\ nclicks = 0
    /\ call = NoCall

FnFrame ==
    UNCHANGED <<config, drawn, dbus, reply, next_id, calls, chan, timers, visible, xevents, pc, cur, inputPc,
                inputN, nsent, nrecv, lastEffect, ncalls, nctl, nclicks>>

fn_mark_next_as_unread ==
    /\ store # <<>>
    /\ LET r == mark_next_as_unread(store)
       IN  /\ store' = r.store
           /\ call' = [op |-> "mark_next_as_unread", pre |-> store, id |-> None,
                       ret |-> r.ret]
    /\ FnFrame

fn_mark_as_read(id) ==
    /\ store' = mark_as_read(store, id)
    /\ call' = [op |-> "mark_as_read", pre |-> store, id |-> id, ret |-> FALSE]
    /\ FnFrame

fn_mark_last_as_read ==
    /\ store' = mark_last_as_read(store)
    /\ call' = [op |-> "mark_last_as_read", pre |-> store, id |-> None, ret |-> FALSE]
    /\ FnFrame

fn_mark_all_as_read ==
    /\ store' = mark_all_as_read(store)
    /\ call' = [op |-> "mark_all_as_read", pre |-> store, id |-> None, ret |-> FALSE]
    /\ FnFrame

fn_is_unread(id) ==
    /\ store' = store
    /\ call' = [op |-> "is_unread", pre |-> store, id |-> id, ret |-> is_unread(store, id)]
    /\ FnFrame

FnNext ==
    \/ fn_mark_next_as_unread
    \/ \E id \in StoreIds \cup {0} : fn_mark_as_read(id)
    \/ fn_mark_last_as_read
    \/ fn_mark_all_as_read
    \/ \E id \in StoreIds \cup {0} : fn_is_unread(id)

FnSpec == FnInit /\ [][FnNext]_vars

\* ------------------------------- Notify arguments and filters as functions
\* The argument conversions of notify and matches_filter applied to bounded
\* inputs; call records the function, its argument and its result.
I32Max == 2147483647
I32Min == -2147483647 - 1
U8Max == 255

ExpireValues == {I32Min, -2, -1, 0, 1, 2, 5, 1000, I32Max - 1, I32Max}
HintValues == {None, 0, 1, 2, 3, 4, U8Max}

Texts == {"a", "b"}
Regexes == {NoRegex} \cup {SomeRegex(S) : S \in SUBSET Texts}
Filters == [app_name : Regexes, summary : Regexes, body : Regexes]
Messages == [app_name : Texts, summary : Texts, body : Texts]

ArgInit ==
    /\ config \in Configs
    /\ dbus = "running"
    /\ reply = None
    /\ next_id = 0
    /\ calls = {}
    /\ chan = <<>>
    /\ store = <<>>
    /\ timers = {}
    /\ visible = FALSE
    /\ xevents = <<>>
    /\ drawn = NoNotification
    /\ pc = "recv"
    /\ cur = NoAction
    /\ inputPc = "wait"
    /\ inputN = NoNotification
    /\ nsent = 0
    /\ nrecv = 0
    /\ lastEffect = 0
    /\ ncalls = 0
    /\ nctl = 0
    /\ nclicks = 0
    /\ call = NoCall

arg_expire_timeout(v) ==
    /\ call' = [op |-> "expire_timeout", arg |-> v, ret |-> notify_expire_timeout(v)]
    /\ store' = store
    /\ FnFrame

arg_urgency(h) ==
    /\ call' = [op |-> "urgency", arg |-> h, ret |-> notify_urgency(h)]
    /\ store' = store
    /\ FnFrame

arg_matches_filter(n, filter) ==
    /\ call' = [op |-> "matches_filter", arg |-> [n |-> n, filter |-> filter],
                ret |-> matches_filter(n, filter)]
    /\ store' = store
    /\ FnFrame

ArgNext ==
    \/ \E v \in ExpireValues : arg_expire_timeout(v)
    \/ \E h \in HintValues : arg_urgency(h)
    \/ \E n \in Messages, filter \in Filters : arg_matches_filter(n, filter)

ArgSpec == ArgInit /\ [][ArgNext]_vars

\* ------------------------------------- the timeout of a Show as a function
\* The timeout computed by run() for every notification, urgency policy and
\* estimated read time of a bounded set.
Policies == {UrgencyConfig(2, NoBool), UrgencyConfig(0, SomeBool(TRUE)),
             UrgencyConfig(7, SomeBool(FALSE)), UrgencyConfig(4, SomeBool(TRUE))}

PolicyConfigs ==
    [startup_notification : {FALSE}, urgency_low : Policies, urgency_normal : Policies,
     urgency_critical : Policies]

Shown == {Notification(1, e, u) : e \in {None, 5}, u \in {"Low", "Normal", "Critical"}}

ReadTimes == {0, 3}

run_timeout(n, c, read_secs) ==
    /\ call' = [op |-> "timeout", arg |-> [n |-> n, c |-> c, read_secs |-> read_secs],
                ret |-> timeout(n, c, read_secs)]
    /\ store' = store
    /\ FnFrame

TimeoutNext == \E n \in Shown, c \in PolicyConfigs, read_secs \in ReadTimes : run_timeout(n, c, read_secs)

TimeoutSpec == ArgInit /\ [][TimeoutNext]_vars

\* --------------------------------------------- history cycling (ShowLast)
\* The dispatch loop processing ShowLast actions only: the store holds
\* entries that were all closed (CloseAll) and the channel the ShowLast
\* actions of k History calls.
MaxShowLast == MaxLen + 2

Closed == {s \in Stores : s # <<>> /\ Unread(s) = {}}

HistInit ==
    /\ config \in {c \in Configs : ~c.startup_notification}
    /\ dbus = "running"
    /\ reply = None
    /\ next_id = 0
    /\ calls = {}
    /\ store \in Closed
    /\ \E k \in 0..MaxShowLast :
          /\ chan = [i \in 1..k |-> [type |-> "ShowLast", n |-> NoNotification,
                                     id |-> None, seq |-> Len(store) + 1 + i]]
          /\ nsent = Len(store) + 1 + k
          /\ nctl = 1 + k
    /\ nrecv = Len(store) + 1
    /\ lastEffect = Len(store) + 1
    /\ ncalls = Len(store)
    /\ timers = {}
    /\ visible = FALSE
    /\ xevents = <<>>
    /\ drawn = [store[Len(store)] EXCEPT !.is_read = FALSE]
    /\ pc = "recv"
    /\ cur = NoAction
    /\ inputPc = "wait"
    /\ inputN = NoNotification
    /\ nclicks = 0
    /\ call = NoCall

HistNext == recv_show_last \/ show_last

HistSpec == HistInit /\ [][HistNext]_vars

\* ================================================================ claims

\* The channel holds exactly the actions sent after the first nrecv ones, in
\* the order they were sent; the action in hand is the nrecv-th one sent.
C1_InOrder ==
    /\ \A i \in 1..Len(chan) : chan[i].seq = nrecv + i
    /\ cur # NoAction => cur.seq = nrecv
    /\ lastEffect <= nrecv

\* C1: the dispatch loop consumes the actions in the order they were
\* enqueued (the k-th action it takes off the channel is the k-th one that
\* was sent), and the effects of an action (store mutations, hide/show) are
\* all issued before any effect of a later action.
C1_Fifo == []C1_InOrder /\ [][lastEffect' >= lastEffect]_vars

C1_Witness ==
    /\ nrecv >= 3
    /\ lastEffect = nrecv
    /\ Len(chan) >= 1

MaxStore == MaxOps

\* The Show of n starts an expiry thread.
Timed(n) == \E read_secs \in ReadSecs : timeout(n, config, read_secs) # 0

\* C2: a notification inserted by a Show with a non-zero timeout is
\* eventually marked read, under fair scheduling and as long as the daemon
\* runs, whatever id it carries.

C2_EventuallyRead ==
    \A i \in 1..MaxStore :
        (pc = "show_add" /\ Len(store) = i - 1 /\ Timed(cur.n))
            ~> (Disconnected \/ (Len(store) >= i /\ store[i].is_read))

\* C3: an expiry timer that fires for a notification that is already
\* marked read enqueues no Close and changes neither the store nor the
\* display.
C3_ReadTimerSilent ==
    [][\A t \in timers :
          (t \notin timers' /\ t.idx <= Len(store) /\ store[t.idx].is_read)
              => (chan' = chan /\ store' = store /\ visible' = visible)]_vars

\* C4: the store holds at most one notification per id.
C4_UniqueIds ==
    \A i, j \in DOMAIN store : store[i].id = store[j].id => i = j

\* C5: no notification in the store has id 0.
C5_NoZeroId ==
    \A i \in DOMAIN store : store[i].id # 0

\* No Notify call is in progress and no Show is waiting or in hand.
AllShowsProcessed ==
    /\ calls = {}
    /\ \A i \in 1..Len(chan) : chan[i].type # "Show"
    /\ pc \in {"recv", "show_last", "close_show"}

\* C6: after n Notify calls, all with replaces_id = 0, and no other Show,
\* once every Show is processed the store holds n entries whose ids, in
\* store order, are 1, 2, ..., n.

C6_IdsInArrivalOrder ==
    (~config.startup_notification /\ next_id = ncalls /\ AllShowsProcessed)
        => (count(store) = ncalls /\ \A i \in DOMAIN store : store[i].id = i)

\* C7: with replaces_id = 0 notify returns the incremented counter, whose
\* first value is 1 and which never repeats a value; with replaces_id # 0 it
\* returns replaces_id and leaves the counter alone.
C7_Allocation ==
    /\ [](next_id <= ncalls /\ (ncalls = 0 => next_id = 0))
    /\ [][ncalls' # ncalls =>
             \E c \in calls' \ calls :
                 IF c.replaces_id = 0
                 THEN c.n.id = next_id + 1 /\ next_id' = next_id + 1
                 ELSE c.n.id = c.replaces_id /\ next_id' = next_id]_vars

C7_Witness ==
    \E c, d \in calls :
        /\ c.replaces_id = 0 /\ c.n.id = 1
        /\ d.replaces_id = 1 /\ d.n.id = 1
        /\ c.call < d.call
        /\ next_id = 1

\* C8: get_last_unread is never called while no notification is unread
\* (the X11 event thread never hits the out-of-bounds index).
C8_LastUnreadNeverEmpty == inputPc # "panicked"

\* C9: mark_next_as_unread returns true exactly when an unread
\* notification remains after it; ShowLast shows the window when it
\* returned true and only hides it when it returned false.
C9_TrueIffUnreadRemains ==
    [][(pc = "show_last" /\ pc' = "recv")
          => (visible' <=> get_unread_count(store') > 0)]_vars

\* C10: on a non-empty store whose entries are all read,
\* mark_next_as_unread marks the last entry unread, leaves the others read
\* and returns true.
C10_WrapToLast ==
    (call.op = "mark_next_as_unread" /\ Unread(call.pre) = {})
        => /\ call.ret
           /\ store = [call.pre EXCEPT ![Len(call.pre)].is_read = FALSE]
           /\ Unread(store) = {Len(store)}

C10_Witness ==
    /\ call.op = "mark_next_as_unread"
    /\ Len(call.pre) >= 2
    /\ Unread(call.pre) = {}

\* The first unread entry of the store a Manager call started from.
FirstUnread == SetMin(Unread(call.pre))

\* C11: when the first unread entry (scanning from the oldest) is not the
\* oldest one, mark_next_as_unread marks it read, marks the entry before it
\* unread, leaves every other entry as it was, and returns true.
C11_StepBack ==
    (call.op = "mark_next_as_unread" /\ Unread(call.pre) # {} /\ FirstUnread > 1)
        => /\ call.ret
           /\ Len(store) = Len(call.pre)
           /\ store[FirstUnread].is_read
           /\ ~store[FirstUnread - 1].is_read
           /\ \A i \in DOMAIN store :
                  i \notin {FirstUnread, FirstUnread - 1} => store[i] = call.pre[i]
           /\ \A i \in DOMAIN store : store[i].id = call.pre[i].id

C11_Witness ==
    /\ call.op = "mark_next_as_unread"
    /\ Len(call.pre) = 3
    /\ Unread(call.pre) = {2, 3}
    /\ Unread(store) = {1, 3}

C14_Idempotent ==
    [][(call.op = "mark_as_read" /\ call'.op = "mark_as_read" /\ call'.id = call.id)
          => (store' = store /\ get_unread_count(store') = get_unread_count(store))]_vars

\* mark_as_read(id) applied to a store it was already applied to, where a
\* later entry of the same id is still unread.
C14_Witness ==
    /\ call.op = "mark_as_read"
    /\ call.pre = store
    /\ Cardinality(WithId(store, call.id)) >= 2
    /\ \E i \in WithId(store, call.id) : ~store[i].is_read

\* C15: is_unread(id) is false for every id that no stored notification
\* carries, the empty store included.
C15_UnknownIdIsRead ==
    (call.op = "is_unread" /\ WithId(call.pre, call.id) = {}) => ~call.ret

C15_Witness ==
    /\ call.op = "is_unread"
    /\ call.pre # <<>>
    /\ WithId(call.pre, call.id) = {}
    /\ Unread(call.pre) = DOMAIN call.pre

\* C13: right after the dispatch loop has processed CloseAll no notification
\* is unread, whatever the store held (duplicate ids included).
C13_CloseAllClears ==
    [][(pc = "recv" /\ chan # <<>> /\ Head(chan).type = "CloseAll" /\ nrecv' = nrecv + 1)
          => get_unread_count(store') = 0]_vars

\* Two Notify calls with the same id and one control call, no click and no
\* Close from a timer: only CloseAll marks both entries read in one action.
C13_Witness ==
    /\ ~config.startup_notification
    /\ ncalls = 2 /\ nctl = 1 /\ nclicks = 0
    /\ nsent = 3 /\ nrecv = 3
    /\ pc = "recv"
    /\ Len(store) = 2
    /\ store[1].id = store[2].id
    /\ Unread(store) = {}

\* C16: Close(Some(id)) for an id that no stored notification carries leaves
\* the store unchanged and the dispatch loop running; every Show processed
\* afterwards appends its notification unread.
C16_CloseUnknownId ==
    /\ [][(/\ pc = "recv" /\ chan # <<>> /\ nrecv' = nrecv + 1
           /\ Head(chan).type = "Close" /\ Head(chan).id # None
           /\ WithId(store, Head(chan).id) = {})
             => (store' = store /\ pc' # "panicked")]_vars
    /\ [][(pc = "show_add" /\ pc' # pc)
             => (/\ pc' # "panicked"
                 /\ store' = Append(store, cur.n)
                 /\ ~store'[Len(store')].is_read)]_vars

\* Close(Some(1)) was processed before the Show of notification 1, which
\* is still waiting in the channel.
C16_Witness ==
    /\ pc = "close_show"
    /\ cur.type = "Close" /\ cur.id = 1
    /\ WithId(store, 1) = {}
    /\ \E i \in DOMAIN chan : chan[i].type = "Show" /\ chan[i].n.id = 1

\* C17: Notify with replaces_id k # 0 takes k as the id; when no stored
\* notification has that id, processing its Show adds exactly one entry, with
\* id k and unread.
C17_ReplacesUnknown ==
    /\ [](\A c \in calls : c.replaces_id # 0 => c.n.id = c.replaces_id /\ ~c.n.is_read)
    /\ [][(pc = "show_add" /\ pc' # pc /\ WithId(store, cur.n.id) = {})
             => (/\ Len(store') = Len(store) + 1
                 /\ SubSeq(store', 1, Len(store)) = store
                 /\ WithId(store', cur.n.id) = {Len(store')}
                 /\ ~store'[Len(store')].is_read)]_vars

\* One Notify call, with replaces_id = 1 (the counter is still 0), on the
\* empty store; its Show has been processed.
C17_Witness ==
    /\ ~config.startup_notification
    /\ ncalls = 1 /\ next_id = 0 /\ calls = {}
    /\ Len(store) = 1
    /\ store[1].id = 1
    /\ ~store[1].is_read

\* The step enqueues exactly the action a and touches nothing but the channel.
Enqueues(a) ==
    /\ Len(chan') = Len(chan) + 1
    /\ SubSeq(chan', 1, Len(chan)) = chan
    /\ chan'[Len(chan')].type = a.type
    /\ chan'[Len(chan')].id = a.id
    /\ chan'[Len(chan')].n = a.n
    /\ UNCHANGED <<store, visible, timers, next_id, xevents, pc, cur, inputPc, inputN>>

\* Enqueues(a) while the dispatch loop runs; once run() has returned the
\* step leaves the channel, the store and the rest as they are.
EnqueuesIfRunning(a) ==
    IF Disconnected
    THEN UNCHANGED <<chan, store, visible, timers, next_id, xevents, pc, cur, inputPc,
                     inputN>>
    ELSE Enqueues(a)

\* C19 (amended): while the dispatch loop runs, History enqueues exactly one
\* ShowLast, Close one Close(None), CloseAll one CloseAll and
\* CloseNotification(id) one Close(Some(id)), and none of them reads or
\* changes the store or anything else; once the loop has terminated the
\* call enqueues nothing.
C19_OneActionWhileRunning ==
    [][/\ history => EnqueuesIfRunning(ActShowLast)
       /\ close => EnqueuesIfRunning(ActClose(None))
       /\ close_all => EnqueuesIfRunning(ActCloseAll)
       /\ \A id \in CloseIds : close_notification(id) => EnqueuesIfRunning(ActClose(id))
       /\ (nctl' # nctl /\ ~Disconnected) => Len(chan') = Len(chan) + 1]_vars

\* C19 (as stated): History enqueues exactly one ShowLast, Close one
\* Close(None), CloseAll one CloseAll and CloseNotification(id) one
\* Close(Some(id)); none of them reads or changes the store or anything else.
C19_ControlOneAction ==
    [][/\ history => Enqueues(ActShowLast)
       /\ close => Enqueues(ActClose(None))
       /\ close_all => Enqueues(ActCloseAll)
       /\ \A id \in CloseIds : close_notification(id) => Enqueues(ActClose(id))
       /\ nctl' # nctl => Len(chan') = Len(chan) + 1]_vars

\* Only History sends ShowLast.
C19_Witness ==
    /\ nctl = 1
    /\ \E i \in DOMAIN chan : chan[i].type = "ShowLast"
    /\ store # <<>>

\* C18: once the D-Bus server thread has failed to acquire the name (or to
\* build the connection), the dispatch loop takes no action off the channel.
C18_NameFailureFatal ==
    [][dbus = "failed" => nrecv' = nrecv]_vars

\* C20: a Notify call that returns Ok(id) has enqueued exactly one Show,
\* whose notification is unread and has that id; a call whose send fails
\* returns an error, no id, and has enqueued nothing.
C20_NotifyOneShow ==
    [][\A c \in calls : c \notin calls' =>
          IF reply' # Err
          THEN /\ Len(chan') = Len(chan) + 1
               /\ SubSeq(chan', 1, Len(chan)) = chan
               /\ chan'[Len(chan')].type = "Show"
               /\ chan'[Len(chan')].n = c.n
               /\ ~chan'[Len(chan')].n.is_read
               /\ chan'[Len(chan')].n.id = reply'
               /\ ~Disconnected
          ELSE /\ chan' = chan
               /\ Disconnected]_vars

\* The first Notify call was answered and its notification stored; the
\* second one, in flight when run() returned, got the error.
C20_Witness ==
    /\ ~config.startup_notification
    /\ ncalls = 2 /\ calls = {}
    /\ reply = Err
    /\ \E i \in DOMAIN store : store[i].id = 1

\* C21: notify turns expire_timeout = -1 into an absent expire_timeout and
\* every positive value v, up to the largest i32, into exactly v
\* milliseconds.
C21_ExpireMapping ==
    call.op = "expire_timeout"
        => /\ (call.arg = -1 => call.ret = None)
           /\ (call.arg > 0 => call.ret = call.arg)

C21_Witness ==
    /\ call.op = "expire_timeout"
    /\ call.arg = I32Max
    /\ call.ret = I32Max

\* C22: the urgency of a notification created by notify is Low for the hint
\* 0, Normal for 1, Critical for 2, and Normal when the hint is absent or
\* has any other value.
C22_UrgencyMapping ==
    call.op = "urgency"
        => call.ret = (CASE call.arg = 0 -> "Low"
                         [] call.arg = 2 -> "Critical"
                         [] OTHER -> "Normal")

C22_Witness ==
    /\ call.op = "urgency"
    /\ call.arg = U8Max
    /\ call.ret = "Normal"

\* The fields a filter constrains.
Present(filter) == {f \in {"app_name", "summary", "body"} : filter[f] # NoRegex}

\* C23: matches_filter is true exactly when every field present in the
\* filter matches the notification's field of the same name; an empty filter
\* matches every notification.
C23_MatchesFilter ==
    call.op = "matches_filter"
        => /\ call.ret <=> \A f \in Present(call.arg.filter) :
                                call.arg.n[f] \in call.arg.filter[f].matches
           /\ (Present(call.arg.filter) = {} => call.ret)

\* Two present fields match and the third does not.
C23_Witness ==
    /\ call.op = "matches_filter"
    /\ Present(call.arg.filter) = {"app_name", "summary", "body"}
    /\ call.arg.n.app_name \in call.arg.filter.app_name.matches
    /\ call.arg.n.summary \in call.arg.filter.summary.matches
    /\ call.arg.n.body \notin call.arg.filter.body.matches
    /\ ~call.ret

\* A step of the dispatch loop thread; a step of the X11 event thread.
MainStep == pc' # pc \/ nrecv' # nrecv
InputStep == inputPc' # inputPc \/ Len(xevents') < Len(xevents)

\* C24 (amended): only the dispatch loop thread shows and hides the
\* display; the X11 event thread draws (and resizes) it when it handles an
\* Expose event and never shows or hides it; the D-Bus methods and the
\* expiry timers change neither its visibility nor its content.
C24_ShowHideByDispatchOnly ==
    [][/\ visible' # visible => MainStep
       /\ drawn' # drawn => (InputStep /\ ~MainStep /\ visible' = visible)
       /\ (~MainStep /\ ~InputStep) => (visible' = visible /\ drawn' = drawn)]_vars

\* C24 (as stated): every operation on the display (show, hide, draw,
\* resize) is a step of the dispatch loop thread.
C24_DisplayByDispatchOnly ==
    [][(visible' # visible \/ drawn' # drawn) => MainStep]_vars

C24_Witness ==
    /\ visible
    /\ drawn # NoNotification
    /\ Unread(store) # {}
    /\ drawn = get_last_unread(store)

\* C25: when the dispatch loop finishes processing an action, the display
\* is visible if and only if at least one notification is unread.
C25_VisibleIffUnread ==
    [][(pc # "startup" /\ pc' = "recv" /\ MainStep)
          => (visible' <=> get_unread_count(store') >= 1)]_vars

\* The number of ShowLast actions taken off the channel so far.
ShowLasts == nrecv - (Len(store) + 1)

\* C26: from a store of n entries that are all read, the j-th consecutive
\* ShowLast leaves exactly entry n - j + 1 unread with the display shown,
\* for j = 1..n; the (n+1)-th leaves every entry read and the display
\* hidden; the next one restarts at the newest entry.
C26_HistoryCycle ==
    (pc = "recv" /\ ShowLasts >= 1)
        => LET n == Len(store)
               r == ShowLasts % (n + 1)
           IN  IF r = 0
               THEN Unread(store) = {} /\ ~visible
               ELSE Unread(store) = {n - r + 1} /\ visible

\* Three entries, five ShowLast actions: the cycle has restarted.
C26_Witness ==
    /\ pc = "recv"
    /\ Len(store) = 3
    /\ ShowLasts = 5
    /\ Unread(store) = {3}
    /\ visible

\* C27: processing Show(n) appends n, unread, as the last entry of the
\* store and leaves the number, order, ids and read state of the entries
\* stored before unchanged.
C27_ShowAppends ==
    [][/\ (pc = "recv" /\ pc' = "show_add") => store' = store
       /\ (pc = "show_add" /\ pc' # pc)
             => (/\ Len(store') = Len(store) + 1
                 /\ \A i \in DOMAIN store : store'[i] = store[i]
                 /\ store'[Len(store')] = [cur.n EXCEPT !.is_read = FALSE]
                 /\ ~cur.n.is_read)]_vars

\* The Show of a second Notify call was appended after the first
\* notification, which is read by now.
C27_Witness ==
    /\ pc = "recv"
    /\ ncalls = 2 /\ nrecv >= 2
    /\ Len(store) = 2
    /\ store[1].is_read
    /\ ~store[2].is_read

ClosesNow ==
    /\ pc = "recv" /\ chan # <<>> /\ nrecv' = nrecv + 1
    /\ Head(chan).type = "Close"

\* C29: after the dispatch loop has processed Close(Some(id)), no stored
\* notification with that id is unread and the read state of every
\* notification with another id is unchanged.
C29_CloseIdMarksRead ==
    [][(ClosesNow /\ Head(chan).id # None)
          => (/\ Len(store') = Len(store)
              /\ \A i \in WithId(store', Head(chan).id) : store'[i].is_read
              /\ \A i \in DOMAIN store :
                     store[i].id # Head(chan).id => store'[i] = store[i])]_vars

\* C30: processing Close(None) marks read the most recently added entry
\* that is still unread and changes no other entry; with no unread entry
\* the store is left unchanged, and the action never panics.
C30_CloseLast ==
    [][(ClosesNow /\ Head(chan).id = None)
          => (/\ pc' # "panicked"
              /\ IF Unread(store) = {} THEN store' = store
                 ELSE store' = [store EXCEPT ![SetMax(Unread(store))].is_read = TRUE])]_vars

\* Two Notify calls, then Close(): the second notification was marked read
\* and the first one is still unread.
C30_Witness ==
    /\ ~config.startup_notification
    /\ pc = "close_show"
    /\ cur.type = "Close" /\ cur.id = None
    /\ ncalls = 2 /\ nsent = 3 /\ nclicks = 0
    /\ Len(store) = 2
    /\ Unread(store) = {1}

\* The dispatch loop takes a ShowLast off the channel.
ShowsLastNow ==
    /\ pc = "recv" /\ chan # <<>> /\ nrecv' = nrecv + 1
    /\ Head(chan).type = "ShowLast"

\* C31: a ShowLast processed while the store is empty changes neither the
\* store nor the display and ends the action; mark_next_as_unread is never
\* reached with an empty store, and the dispatch loop never panics.
C31_ShowLastOnEmpty ==
    [][/\ (ShowsLastNow /\ count(store) = 0)
             => (/\ store' = store
                 /\ visible' = visible /\ xevents' = xevents /\ drawn' = drawn
                 /\ pc' = "recv")
       /\ pc' = "show_last" => count(store') # 0
       /\ pc' # "panicked"]_vars

\* History() was called before any notification arrived and its ShowLast
\* has been processed: nothing is stored, nothing is shown.
C31_Witness ==
    /\ pc = "recv" /\ cur = NoAction
    /\ nctl = 1 /\ nrecv = 1 /\ lastEffect = 0
    /\ store = <<>>
    /\ ~visible /\ xevents = <<>>

\* The entries a call of mark_next_as_unread turned from read to unread.
MarkedUnread == {i \in DOMAIN store : call.pre[i].is_read /\ ~store[i].is_read}

\* C32: whenever mark_next_as_unread returns true, the notification that
\* get_last_unread() then returns (the one the display draws) is the entry
\* the call has just marked unread.
C32_DrawsMarkedEntry ==
    (call.op = "mark_next_as_unread" /\ call.ret)
        => (/\ MarkedUnread # {}
            /\ Unread(store) # {}
            /\ SetMax(Unread(store)) \in MarkedUnread)

\* C33: on a button press, the entry that mark_last_as_read marks read is
\* the notification get_last_unread returned just before (whose id is then
\* sent as Close(Some(id))), whatever the dispatch loop does in between.
C33_ClickMarksWhatItSends ==
    [][(inputPc = "press_mark" /\ inputPc' = "press_send")
          => (/\ Unread(store) # {}
              /\ store[SetMax(Unread(store))] = inputN
              /\ store' = [store EXCEPT ![SetMax(Unread(store))].is_read = TRUE])]_vars

\* C34: the expiry thread of a shown notification runs its is_unread check
\* only after the notification has been added to the store.
C34_TimerAfterInsert ==
    [][\A t \in timers : t \notin timers' => t.idx <= Len(store)]_vars

\* The notification an expiry thread was spawned for: the entry at its
\* position, or the one in hand while it is not yet added.
ShownAt(i) == IF i <= Len(store) THEN store[i] ELSE cur.n

\* The dispatch loop takes a CloseAll off the channel.
ClosesAllNow ==
    /\ pc = "recv" /\ chan # <<>> /\ nrecv' = nrecv + 1
    /\ Head(chan).type = "CloseAll"

\* C35: a Show whose effective timeout is zero spawns no expiry thread, so
\* no expiry thread ever exists (or sends a Close) on behalf of such a
\* notification; it turns from unread to read only when the dispatch loop
\* processes a Close, a CloseAll or a ShowLast, or on a button press.
C35_ZeroTimeoutNoTimer ==
    [][/\ (pc = "recv" /\ pc' = "show_add" /\ ~Timed(cur'.n)) => timers' = timers
       /\ \A t \in timers : Timed(ShownAt(t.idx))
       /\ \A i \in DOMAIN store :
             (~Timed(store[i]) /\ ~store[i].is_read /\ store'[i].is_read)
                 => \/ ClosesNow
                    \/ ClosesAllNow
                    \/ pc = "show_last" /\ pc' # pc
                    \/ inputPc = "press_mark" /\ inputPc' = "press_send"]_vars

\* A notification without timeout is still unread and no expiry thread is
\* left, while a later notification with a timeout has expired.
C35_Witness ==
    /\ pc = "recv"
    /\ Len(store) = 2
    /\ ~Timed(store[1]) /\ ~store[1].is_read
    /\ Timed(store[2]) /\ store[2].is_read
    /\ timers = {}
    /\ nctl = 0 /\ nclicks = 0

\* C36: the is_read flag of a stored notification turns from true to false
\* only in the step of the dispatch loop that runs mark_next_as_unread for
\* a ShowLast; no other step of any thread does it.
C36_UnreadOnlyByShowLast ==
    [][\A i \in DOMAIN store :
          (store[i].is_read /\ ~store'[i].is_read)
              => (pc = "show_last" /\ cur.type = "ShowLast" /\ pc' # pc)]_vars

\* One notification, closed by its expiry thread and brought back by
\* History(): it is unread again.
C36_Witness ==
    /\ pc = "recv" /\ chan = <<>>
    /\ ncalls = 1 /\ nctl = 1 /\ nclicks = 0
    /\ nrecv = 3
    /\ ~config.startup_notification
    /\ Len(store) = 1
    /\ ~store[1].is_read
    /\ visible

\* The dispatch loop takes a Show off the channel.
ShowsNow ==
    /\ pc = "recv" /\ chan # <<>> /\ nrecv' = nrecv + 1
    /\ Head(chan).type = "Show"

\* C37: notifications are never removed from the store.  The store starts
\* empty, every Show taken off the channel is followed by exactly one add,
\* and no other step changes the length, so count() never decreases and
\* equals the number of Shows processed; each stored entry keeps its place
\* and every field but is_read.
C37_NeverRemoved ==
    [][/\ Len(store') >= Len(store)
       /\ \A i \in DOMAIN store : [store'[i] EXCEPT !.is_read = store[i].is_read] = store[i]
       /\ ShowsNow => (pc' = "show_add" /\ store' = store)
       /\ (pc = "show_add" /\ pc' # pc) => Len(store') = Len(store) + 1
       /\ Len(store') # Len(store) => (pc = "show_add" /\ pc' # pc)
       /\ pc' = "show_add" => (pc = "show_add" \/ ShowsNow)]_vars

\* Two Shows, a control action and an expiry Close were all processed: two
\* entries are stored, in the order of their Shows.
C37_Witness ==
    /\ pc = "recv" /\ chan = <<>>
    /\ ~config.startup_notification
    /\ ncalls = 2 /\ nctl = 1 /\ nrecv >= 4
    /\ Len(store) = 2
    /\ store[1].id = 1 /\ store[2].id = 2
    /\ Unread(store) = {}

\* The urgency policy that applies to a notification.
PolicyOf(n, c) ==
    IF n.urgency = "Low" THEN c.urgency_low
    ELSE IF n.urgency = "Critical" THEN c.urgency_critical
    ELSE c.urgency_normal

\* C38: the effective timeout of a Show is the notification's explicit
\* expire_timeout when it has one, whatever the urgency policy says;
\* without one it is the policy's timeout (in seconds), unless the policy
\* requests auto-clear, in which case it is the estimated read time.
C38_EffectiveTimeout ==
    call.op = "timeout"
        => LET n == call.arg.n
               policy == PolicyOf(n, call.arg.c)
           IN  IF n.expire_timeout # None THEN call.ret = n.expire_timeout
               ELSE IF policy.auto_clear = SomeBool(TRUE)
                    THEN call.ret = call.arg.read_secs * 1000
                    ELSE call.ret = policy.timeout * 1000

\* An explicit timeout of 5 ms wins over a critical policy of 4 s with
\* auto-clear.
C38_Witness ==
    /\ call.op = "timeout"
    /\ call.arg.n.expire_timeout = 5
    /\ call.arg.n.urgency = "Critical"
    /\ call.arg.c.urgency_critical = UrgencyConfig(4, SomeBool(TRUE))
    /\ call.arg.read_secs = 3
    /\ call.ret = 5

\* No more actions than this are ever enqueued: every notification can be
\* closed by its expiry thread, and every call and click enqueues one.
MaxSent == 2 * MaxOps

\* The k-th enqueued action has been processed to its end.
Processed(k) == nrecv > k \/ (nrecv = k /\ pc = "recv")

\* C39: the dispatch loop stops only where a display call fails (the
\* channel cannot close while run() holds its Sender) and never panics; it
\* takes no step while the channel is empty; and under fair scheduling
\* every enqueued action is processed unless the loop has stopped.
C39_LoopRuns ==
    /\ [][/\ (pc' = "exited" /\ pc # "exited")
                => \/ pc \in {"show_add", "show_last", "close_show"}
                   \/ ClosesNow
                   \/ ClosesAllNow
          /\ pc' # "panicked"
          /\ (pc = "recv" /\ chan = <<>>) => ~MainStep]_vars
    /\ \A k \in 1..MaxSent : (nsent >= k) ~> (Disconnected \/ Processed(k))

\* Five actions were enqueued and processed; the loop waits on the empty
\* channel.
C39_Witness ==
    /\ pc = "recv" /\ chan = <<>>
    /\ nsent = 5 /\ nrecv = 5
    /\ lastEffect = 5

====
